---------------------------- MODULE Spec2Model ----------------------------
(***************************************************************************)
(* State-machine model of analyse.py: the CSV normalisation loop, the      *)
(* aggregate views computed by network_incidents, the three CSV files it   *)
(* writes, and the highlights block of incident_analysis.                  *)
(*                                                                         *)
(* Text is a sequence of one-character strings, so that strip, lower,      *)
(* replace, int(), float(), strptime and the f-strings are computed and    *)
(* not assumed.  Python's None is the one-element sequence <<"None">>,     *)
(* which is no text (its element is not a character).                      *)
(* Money and impact scores are fixed-point numbers in hundredths           *)
(* (1 234,50 is 123450); the raw texts used carry at most two decimals.    *)
(* The raw texts are built from digits, letters a-z A-Z (except the        *)
(* words inf, infinity and nan), space, tab, and the signs + - , . / :     *)
(* so exponents, underscores and ISO week dates do not occur.              *)
(***************************************************************************)
EXTENDS Integers, Sequences, FiniteSets

(***************************************************************************)
(* Text helpers                                                            *)
(***************************************************************************)
None == <<"None">>

WS == {" ", "\t"}

Digits == <<"0", "1", "2", "3", "4", "5", "6", "7", "8", "9">>

UpperCase == <<"A", "B", "C", "D", "E", "F", "G", "H", "I", "J", "K", "L", "M",
               "N", "O", "P", "Q", "R", "S", "T", "U", "V", "W", "X", "Y", "Z">>

LowerCase == <<"a", "b", "c", "d", "e", "f", "g", "h", "i", "j", "k", "l", "m",
               "n", "o", "p", "q", "r", "s", "t", "u", "v", "w", "x", "y", "z">>

IsDigit(c) == \E i \in 1..10 : Digits[i] = c

DigitVal(c) == (CHOOSE i \in 1..10 : Digits[i] = c) - 1

AllDigits(s) == \A i \in 1..Len(s) : IsDigit(s[i])

RECURSIVE NatVal(_)
NatVal(s) ==
    IF s = <<>> THEN 0
    ELSE 10 * NatVal(SubSeq(s, 1, Len(s) - 1)) + DigitVal(s[Len(s)])

RECURSIVE LStrip(_)
LStrip(s) == IF s # <<>> /\ Head(s) \in WS THEN LStrip(Tail(s)) ELSE s

RECURSIVE RStrip(_)
RStrip(s) ==
    IF s # <<>> /\ s[Len(s)] \in WS THEN RStrip(SubSeq(s, 1, Len(s) - 1)) ELSE s

\* str.strip()
Strip(s) == RStrip(LStrip(s))

LowerChar(c) ==
    IF \E i \in 1..26 : UpperCase[i] = c
    THEN LowerCase[CHOOSE i \in 1..26 : UpperCase[i] = c]
    ELSE c

\* str.lower()
Lower(s) == [i \in 1..Len(s) |-> LowerChar(s[i])]

\* str.replace(a, b) for a one-character a and a text b
RECURSIVE Replace(_, _, _)
Replace(s, a, b) ==
    IF s = <<>> THEN <<>>
    ELSE (IF Head(s) = a THEN b ELSE <<Head(s)>>) \o Replace(Tail(s), a, b)

\* str.split(sep) for a one-character sep
RECURSIVE Split(_, _)
Split(s, sep) ==
    IF \A i \in 1..Len(s) : s[i] # sep THEN <<s>>
    ELSE LET k == CHOOSE i \in 1..Len(s) :
                      s[i] = sep /\ \A j \in 1..(i - 1) : s[j] # sep
         IN  <<SubSeq(s, 1, k - 1)>> \o Split(SubSeq(s, k + 1, Len(s)), sep)

\* str(n) of a non-negative integer, and of any integer
RECURSIVE NatStr(_)
NatStr(n) == IF n < 10 THEN <<Digits[n + 1]>>
             ELSE NatStr(n \div 10) \o <<Digits[(n % 10) + 1]>>

IntStr(n) == IF n < 0 THEN <<"-">> \o NatStr(-n) ELSE NatStr(n)

\* f"{n:0{w}d}" of a non-negative integer
RECURSIVE ZeroPad(_, _)
ZeroPad(s, w) == IF Len(s) >= w THEN s ELSE ZeroPad(<<"0">> \o s, w)

\* `x or y` on a text or None: None and "" are falsy
Or(x, y) == IF x = None \/ x = <<>> THEN y ELSE x

\* round-half-to-even of n / d (d > 0), as Python's round() of a quotient that
\* is exact in binary (a tie that is not follows the binary value)
RoundDiv(n, d) ==
    LET q == n \div d
        r == n % d
    IN  IF 2 * r < d THEN q
        ELSE IF 2 * r > d THEN q + 1
        ELSE IF q % 2 = 0 THEN q ELSE q + 1

(***************************************************************************)
(* helper function 1: parse_swedish_float, in hundredths                   *)
(***************************************************************************)
Unsigned(t) == IF t # <<>> /\ Head(t) \in {"+", "-"} THEN Tail(t) ELSE t

Sign(t) == IF t # <<>> /\ Head(t) = "-" THEN -1 ELSE 1

\* float(t) raises no ValueError
FloatOk(t) ==
    LET parts == Split(Unsigned(Strip(t)), ".")
    IN  /\ Len(parts) \in {1, 2}
        /\ \A i \in 1..Len(parts) : AllDigits(parts[i])
        /\ \E i \in 1..Len(parts) : parts[i] # <<>>

\* float(t) in hundredths; decimals after the second are dropped
FloatVal(t) ==
    LET u     == Strip(t)
        parts == Split(Unsigned(u), ".")
        frac  == IF Len(parts) = 2 THEN parts[2] ELSE <<>>
        f2    == SubSeq(frac \o <<"0", "0">>, 1, 2)
    IN  Sign(u) * (100 * NatVal(parts[1]) + NatVal(f2))

parse_swedish_float(s) ==
    IF s = None THEN 0
    ELSE LET t == Strip(s)
         IN  IF t = <<>> THEN 0
             ELSE LET u == Replace(Replace(t, " ", <<>>), ",", <<".">>)
                  IN  IF FloatOk(u) THEN FloatVal(u) ELSE 0

(***************************************************************************)
(* helper function 2: safe_int                                             *)
(***************************************************************************)
\* int(t) raises no ValueError
IntOk(t) ==
    LET b == Unsigned(Strip(t))
    IN  b # <<>> /\ AllDigits(b)

IntVal(t) == Sign(Strip(t)) * NatVal(Unsigned(Strip(t)))

\* safe_int that reads the leading digits and ignores what follows them
RECURSIVE LeadingDigits(_)
LeadingDigits(t) ==
    IF t # <<>> /\ IsDigit(Head(t)) THEN <<Head(t)>> \o LeadingDigits(Tail(t)) ELSE <<>>

safe_int_lenient(value, default) ==
    IF value = None \/ value = <<>> THEN default
    ELSE IF LeadingDigits(Unsigned(Strip(value))) # <<>>
    THEN Sign(Strip(value)) * NatVal(LeadingDigits(Unsigned(Strip(value))))
    ELSE default

safe_int(value, default) ==
    IF value = None \/ value = <<>> THEN default
    ELSE IF IntOk(value) THEN IntVal(value) ELSE default

(***************************************************************************)
(* helper function 3: parse_date_flex.  A date is the number yyyymmdd, so  *)
(* that dates order as calendar dates do; NoDate is Python's None.         *)
(***************************************************************************)
NoDate == 0

IsLeap(y) == (y % 4 = 0 /\ y % 100 # 0) \/ y % 400 = 0

DaysInMonth(y, m) ==
    IF m = 2 THEN (IF IsLeap(y) THEN 29 ELSE 28)
    ELSE IF m \in {4, 6, 9, 11} THEN 30 ELSE 31

\* datetime.date(y, m, d), NoDate where it raises ValueError
MkDate(y, m, d) ==
    IF y >= 1 /\ y <= 9999 /\ m >= 1 /\ m <= 12 /\ d >= 1 /\ d <= DaysInMonth(y, m)
    THEN y * 10000 + m * 100 + d
    ELSE NoDate

\* the strptime directives' regular expressions
TokY4(p) == Len(p) = 4 /\ AllDigits(p)

TokY2(p) == Len(p) = 2 /\ AllDigits(p)

TokMonth(p) == Len(p) \in {1, 2} /\ AllDigits(p) /\ NatVal(p) \in 1..12

TokDay(p) ==
    \/ Len(p) \in {1, 2} /\ AllDigits(p) /\ NatVal(p) \in 1..31
    \/ Len(p) = 2 /\ p[1] = " " /\ IsDigit(p[2]) /\ p[2] # "0"

DayVal(p) == NatVal(LStrip(p))

\* %y: 69-99 are 1969-1999, 00-68 are 2000-2068
Year2(p) == IF NatVal(p) >= 69 THEN 1900 + NatVal(p) ELSE 2000 + NatVal(p)

\* datetime.strptime(s, fmt).date() for the four formats, NoDate on ValueError
StrpYmd(s, sep) ==
    LET p == Split(s, sep)
    IN  IF Len(p) = 3 /\ TokY4(p[1]) /\ TokMonth(p[2]) /\ TokDay(p[3])
        THEN MkDate(NatVal(p[1]), NatVal(p[2]), DayVal(p[3]))
        ELSE NoDate

StrpDmY(s) ==
    LET p == Split(s, "-")
    IN  IF Len(p) = 3 /\ TokDay(p[1]) /\ TokMonth(p[2]) /\ TokY4(p[3])
        THEN MkDate(NatVal(p[3]), NatVal(p[2]), DayVal(p[1]))
        ELSE NoDate

StrpDmy2(s) ==
    LET p == Split(s, "/")
    IN  IF Len(p) = 3 /\ TokDay(p[1]) /\ TokMonth(p[2]) /\ TokY2(p[3])
        THEN MkDate(Year2(p[3]), NatVal(p[2]), DayVal(p[1]))
        ELSE NoDate

\* the time part of datetime.fromisoformat: HH, HH:MM, HH:MM:SS, HHMM or HHMMSS
\* (no fraction of a second and no UTC offset)
IsoTimeOk(t) ==
    LET p == IF Len(t) \in {4, 6} /\ AllDigits(t)
             THEN [i \in 1..(Len(t) \div 2) |-> SubSeq(t, 2 * i - 1, 2 * i)]
             ELSE Split(t, ":")
    IN  /\ Len(p) \in 1..3
        /\ \A i \in 1..Len(p) : Len(p[i]) = 2 /\ AllDigits(p[i])
        /\ NatVal(p[1]) <= 23
        /\ \A i \in 2..Len(p) : NatVal(p[i]) <= 59

\* the date part: YYYY-MM-DD or YYYYMMDD
IsoDate(d) ==
    IF Len(d) = 10 /\ d[5] = "-" /\ d[8] = "-"
       /\ AllDigits(SubSeq(d, 1, 4)) /\ AllDigits(SubSeq(d, 6, 7))
       /\ AllDigits(SubSeq(d, 9, 10))
    THEN MkDate(NatVal(SubSeq(d, 1, 4)), NatVal(SubSeq(d, 6, 7)),
                NatVal(SubSeq(d, 9, 10)))
    ELSE IF Len(d) = 8 /\ AllDigits(d)
    THEN MkDate(NatVal(SubSeq(d, 1, 4)), NatVal(SubSeq(d, 5, 6)),
                NatVal(SubSeq(d, 7, 8)))
    ELSE NoDate

\* datetime.fromisoformat(s).date(), NoDate on ValueError
FromIso(s) ==
    LET n == IF Len(s) >= 10 /\ s[5] = "-" THEN 10 ELSE 8
    IN  IF Len(s) <= n THEN IsoDate(s)
        ELSE IF Len(s) >= n + 2 /\ IsoTimeOk(SubSeq(s, n + 2, Len(s)))
        THEN IsoDate(SubSeq(s, 1, n))
        ELSE NoDate

parse_date_flex(raw) ==
    IF raw = None \/ raw = <<>> THEN NoDate
    ELSE LET s == Strip(raw)
         IN  IF StrpYmd(s, "-") # NoDate THEN StrpYmd(s, "-")
             ELSE IF StrpYmd(s, "/") # NoDate THEN StrpYmd(s, "/")
             ELSE IF StrpDmY(s) # NoDate THEN StrpDmY(s)
             ELSE IF StrpDmy2(s) # NoDate THEN StrpDmy2(s)
             ELSE FromIso(s)

\* date.isoformat()
IsoFormat(d) ==
    ZeroPad(NatStr(d \div 10000), 4) \o <<"-">>
        \o ZeroPad(NatStr((d \div 100) % 100), 2) \o <<"-">>
        \o ZeroPad(NatStr(d % 100), 2)

(***************************************************************************)
(* helper function 4: format_sek of an amount in hundredths                *)
(***************************************************************************)
\* the digits of f"{n:,}" with the comma already replaced by a space
RECURSIVE Grouped(_)
Grouped(s) ==
    IF Len(s) <= 3 THEN s
    ELSE Grouped(SubSeq(s, 1, Len(s) - 3)) \o <<" ">> \o SubSeq(s, Len(s) - 2, Len(s))

format_sek(v) ==
    LET a == IF v < 0 THEN -v ELSE v
    IN  (IF v < 0 THEN <<"-">> ELSE <<>>)
            \o Grouped(NatStr(a \div 100)) \o <<",">> \o ZeroPad(NatStr(a % 100), 2)

(***************************************************************************)
(* The string literals of analyse.py                                       *)
(***************************************************************************)
UNKNOWN == <<"U", "N", "K", "N", "O", "W", "N">>

unknown == <<"u", "n", "k", "n", "o", "w", "n">>

critical == <<"c", "r", "i", "t", "i", "c", "a", "l">>

high == <<"h", "i", "g", "h">>

medium == <<"m", "e", "d", "i", "u", "m">>

low == <<"l", "o", "w">>

TOR02 == <<"S", "W", "-", "D", "C", "-", "T", "O", "R", "-", "0", "2">>

SW == <<"S", "W">>

AP == <<"A", "P">>

RT == <<"R", "T">>

FW == <<"F", "W">>

LB == <<"L", "B">>

switch == <<"s", "w", "i", "t", "c", "h">>

access_point == <<"a", "c", "c", "e", "s", "s", "_", "p", "o", "i", "n", "t">>

router == <<"r", "o", "u", "t", "e", "r">>

firewall == <<"f", "i", "r", "e", "w", "a", "l", "l">>

load_balancer == <<"l", "o", "a", "d", "_", "b", "a", "l", "a", "n", "c", "e", "r">>

other == <<"o", "t", "h", "e", "r">>

yes == <<"y", "e", "s">>

no == <<"n", "o">>

TxtTo == <<" ", "t", "o", " ">>

TxtWeek == <<"W", "e", "e", "k", " ">>

TxtWeeks == <<"W", "e", "e", "k", "s", " ">>

TxtDash == <<"-">>

TxtUnknownPeriod == <<"U", "n", "k", "n", "o", "w", "n", " ", "p", "e", "r", "i", "o", "d">>

(***************************************************************************)
(* Python's orderings: str < str by code point, sorted(), max(), sum()     *)
(***************************************************************************)
\* the characters of the raw texts in code-point order
Alphabet == <<"\t", " ", "+", ",", "-", ".", "/">> \o Digits \o <<":">>
                \o UpperCase \o <<"_">> \o LowerCase

Code(c) == CHOOSE i \in 1..Len(Alphabet) : Alphabet[i] = c

RECURSIVE StrLess(_, _)
StrLess(a, b) ==
    IF b = <<>> THEN FALSE
    ELSE IF a = <<>> THEN TRUE
    ELSE IF Head(a) = Head(b) THEN StrLess(Tail(a), Tail(b))
    ELSE Code(Head(a)) < Code(Head(b))

\* sorted(S) of a set of texts
RECURSIVE SortTexts(_)
SortTexts(S) ==
    IF S = {} THEN <<>>
    ELSE LET m == CHOOSE x \in S : \A y \in S \ {x} : StrLess(x, y)
         IN  <<m>> \o SortTexts(S \ {m})

\* sorted(S) of a set of integers
RECURSIVE SortInts(_)
SortInts(S) ==
    IF S = {} THEN <<>>
    ELSE LET m == CHOOSE x \in S : \A y \in S : x <= y
         IN  <<m>> \o SortInts(S \ {m})

\* a < b for two keys: tuples of integers, compared as Python compares tuples
RECURSIVE KeyLess(_, _)
KeyLess(a, b) ==
    IF b = <<>> THEN FALSE
    ELSE IF a = <<>> THEN TRUE
    ELSE IF Head(a) = Head(b) THEN KeyLess(Tail(a), Tail(b))
    ELSE Head(a) < Head(b)

RECURSIVE InsertDesc(_, _, _)
\* InsertDesc that puts x in front of the elements of equal key
InsertDescBeforeEqual(sorted, x, key) ==
    IF sorted = <<>> THEN <<x>>
    ELSE IF KeyLess(key[x], key[Head(sorted)])
         THEN <<Head(sorted)>> \o InsertDesc(Tail(sorted), x, key)
         ELSE <<x>> \o sorted

\* One step of sorted(..., reverse=True): x goes behind every element whose
\* key is not smaller, so equal keys keep the order they arrived in.
InsertDesc(sorted, x, key) ==
    IF sorted = <<>> THEN <<x>>
    ELSE IF ~KeyLess(key[Head(sorted)], key[x])
         THEN <<Head(sorted)>> \o InsertDesc(Tail(sorted), x, key)
         ELSE <<x>> \o sorted

\* sorted(xs, key=..., reverse=True): xs a sequence, key a function from its
\* elements to tuples of integers (a number is the tuple of length one)
RECURSIVE SortedDesc(_, _)
SortedDesc(xs, key) ==
    IF xs = <<>> THEN <<>>
    ELSE InsertDesc(SortedDesc(SubSeq(xs, 1, Len(xs) - 1), key), xs[Len(xs)], key)

\* MaxBy that keeps the last element of the largest key
RECURSIVE MaxByLast(_, _)
MaxByLast(xs, key) ==
    IF Len(xs) = 1 THEN xs[1]
    ELSE LET best == MaxByLast(SubSeq(xs, 1, Len(xs) - 1), key)
         IN  IF key[xs[Len(xs)]] >= key[best] THEN xs[Len(xs)] ELSE best

\* max(xs, key=...): the first element of the largest key (xs not empty)
RECURSIVE MaxBy(_, _)
MaxBy(xs, key) ==
    IF Len(xs) = 1 THEN xs[1]
    ELSE LET best == MaxBy(SubSeq(xs, 1, Len(xs) - 1), key)
         IN  IF key[xs[Len(xs)]] > key[best] THEN xs[Len(xs)] ELSE best

\* sum(f[i] for i in 1..n)
RECURSIVE SumTo(_, _)
SumTo(f, n) == IF n = 0 THEN 0 ELSE SumTo(f, n - 1) + f[n]

\* [x for x in xs if keep[x]]
RECURSIVE Filter(_, _)
Filter(xs, keep) ==
    IF xs = <<>> THEN <<>>
    ELSE (IF keep[Head(xs)] THEN <<Head(xs)>> ELSE <<>>) \o Filter(Tail(xs), keep)

Range(f) == {f[i] : i \in DOMAIN f}

Indices(rs) == [i \in 1..Len(rs) |-> i]

(***************************************************************************)
(* The program state                                                       *)
(***************************************************************************)
VARIABLES
    pc,              \* where the run is
    lines,           \* the raw rows the reader has yielded so far
    rows,            \* network_incidents' list of normalised rows
    summary,         \* the locals of lines 113-156, <<>> before they are set
    site_summary,    \* the dict of lines 159-176, in insertion order
    device_summary,  \* the dict of lines 210-235, in insertion order
    weekly_summary,  \* the dict of lines 269-284, in insertion order
    files,           \* file name -> what was written, for the files opened "w"
    results          \* the dict network_incidents returns, <<>> before

vars == <<pc, lines, rows, summary, site_summary, device_summary, weekly_summary,
          files, results>>

Unset == <<>>

\* open(name, "w") followed by the writes: the file exists from then on
Written(name, content) ==
    [n \in DOMAIN files \cup {name} |-> IF n = name THEN content ELSE files[n]]

(***************************************************************************)
(* Lines 95-106: one csv.DictReader row, normalised.  A raw row maps each  *)
(* column to a text, or to None where the line is short of fields.         *)
(***************************************************************************)
StripField(v) == IF v = None THEN None ELSE Strip(v)

NormaliseRow(r) ==
    LET row == [k \in DOMAIN r |-> StripField(r[k])]
        date_raw == Or(row.date, Or(row.incident_date, <<>>))
    IN  [ticket_id          |-> row.ticket_id,
         device_hostname    |-> row.device_hostname,
         site               |-> row.site,
         category           |-> row.category,
         impact_score       |-> row.impact_score,
         date               |-> row.date,
         incident_date      |-> row.incident_date,
         week_number        |-> safe_int(row.week_number, 0),
         resolution_minutes |-> safe_int(row.resolution_minutes, 0),
         affected_users     |-> safe_int(row.affected_users, 0),
         cost_sek           |-> parse_swedish_float(row.cost_sek),
         severity           |-> Lower(Strip(Or(row.severity, <<>>))),
         date_raw           |-> date_raw,
         date_parsed        |-> parse_date_flex(date_raw)]

Init ==
    /\ pc = "reading"
    /\ lines = <<>>
    /\ rows = <<>>
    /\ summary = Unset
    /\ site_summary = <<>>
    /\ device_summary = <<>>
    /\ weekly_summary = <<>>
    /\ files = <<>>
    /\ results = Unset

\* for r in reader: ... rows.append(row)
ReadRow(Raws, max) ==
    /\ pc = "reading"
    /\ Len(rows) < max
    /\ \E r \in Raws :
           /\ lines' = Append(lines, r)
           /\ rows' = Append(rows, NormaliseRow(r))
    /\ UNCHANGED <<pc, summary, site_summary, device_summary, weekly_summary,
                   files, results>>

\* the reader is exhausted and the with block closes the input
EndOfFile ==
    /\ pc = "reading"
    /\ pc' = "read"
    /\ UNCHANGED <<lines, rows, summary, site_summary, device_summary, weekly_summary,
                   files, results>>

\* the emptiness check placed after the first output file is opened
NoRowsAfterOpen ==
    /\ pc = "read"
    /\ rows = <<>>
    /\ files' = Written("incidents_by_site.csv", <<>>)
    /\ pc' = "fatal"
    /\ UNCHANGED <<lines, rows, summary, site_summary, device_summary,
                   weekly_summary, results>>

\* if not rows: raise SystemExit(...)
NoRows ==
    /\ pc = "read"
    /\ rows = <<>>
    /\ pc' = "fatal"
    /\ UNCHANGED <<lines, rows, summary, site_summary, device_summary, weekly_summary,
                   files, results>>

(***************************************************************************)
(* Lines 113-156: the summary.  Lists of rows (big_incidents, top5) hold   *)
(* references to the dicts of `rows`: here, their positions in rows.       *)
(***************************************************************************)
TopN == 5

BigThreshold == 100

CostKey(rs) == [i \in 1..Len(rs) |-> rs[i].cost_sek]

total_cost(rs) == SumTo(CostKey(rs), Len(rs))

SiteOf(r) == Or(r.site, UNKNOWN)

DeviceOf(r) == Or(r.device_hostname, UNKNOWN)

CategoryOf(r) == Or(r.category, UNKNOWN)

sites(rs) == SortTexts({SiteOf(rs[i]) : i \in 1..Len(rs)})

\* period with the week numbers tried before the dates
period_weeks_first(rs) ==
    LET dates == SortInts({rs[i].date_parsed : i \in 1..Len(rs)} \ {NoDate})
        weeks == SortInts({rs[i].week_number : i \in 1..Len(rs)} \ {0})
    IN  IF weeks # <<>>
        THEN IF weeks[1] = weeks[Len(weeks)]
             THEN TxtWeek \o IntStr(weeks[1])
             ELSE TxtWeeks \o IntStr(weeks[1]) \o TxtDash \o IntStr(weeks[Len(weeks)])
        ELSE IF dates # <<>>
        THEN IsoFormat(dates[1]) \o TxtTo \o IsoFormat(dates[Len(dates)])
        ELSE TxtUnknownPeriod

\* lines 116-127
period(rs) ==
    LET dates == SortInts({rs[i].date_parsed : i \in 1..Len(rs)} \ {NoDate})
        weeks == SortInts({rs[i].week_number : i \in 1..Len(rs)} \ {0})
    IN  IF dates # <<>>
        THEN IsoFormat(dates[1]) \o TxtTo \o IsoFormat(dates[Len(dates)])
        ELSE IF weeks # <<>>
        THEN IF weeks[1] = weeks[Len(weeks)]
             THEN TxtWeek \o IntStr(weeks[1])
             ELSE TxtWeeks \o IntStr(weeks[1]) \o TxtDash \o IntStr(weeks[Len(weeks)])
        ELSE TxtUnknownPeriod

\* Counter(key(r) for r in rows), key a function on 1..Len(rs)
Counter(key) ==
    [k \in Range(key) |-> Cardinality({i \in DOMAIN key : key[i] = k})]

sev_counts(rs) == Counter([i \in 1..Len(rs) |-> Or(rs[i].severity, unknown)])

\* lines 132-136 for one key of sev_counts
SeverityGroup(rs, sev) ==
    Filter(Indices(rs), [i \in 1..Len(rs) |-> rs[i].severity = sev])

SeverityStats(rs, sev) ==
    LET grp == SeverityGroup(rs, sev)
        cnt == Len(grp)
        res == SumTo([j \in 1..cnt |-> rs[grp[j]].resolution_minutes], cnt)
        cst == SumTo([j \in 1..cnt |-> rs[grp[j]].cost_sek], cnt)
    IN  [count    |-> cnt,
         avg_res  |-> IF cnt # 0 THEN RoundDiv(res, cnt) ELSE 0,
         avg_cost |-> IF cnt # 0 THEN RoundDiv(cst, cnt) ELSE 0]

per_severity(rs) ==
    [sev \in DOMAIN sev_counts(rs) |-> SeverityStats(rs, sev)]

big_incidents(rs) ==
    Filter(Indices(rs), [i \in 1..Len(rs) |-> rs[i].affected_users > BigThreshold])

top5(rs) ==
    LET s == SortedDesc(Indices(rs), [i \in 1..Len(rs) |-> <<rs[i].cost_sek>>])
    IN  SubSeq(s, 1, IF Len(s) < TopN THEN Len(s) ELSE TopN)

device_counts(rs) == Counter([i \in 1..Len(rs) |-> DeviceOf(rs[i])])

recurring(rs) ==
    LET c == device_counts(rs)
    IN  [d \in {k \in DOMAIN c : c[k] > 1} |-> c[d]]

\* lines 143-155: the impact scores of a category, averaged to one decimal
\* (the average is in tenths)
avg_cat_scores(rs) ==
    LET cats == {CategoryOf(rs[i]) : i \in 1..Len(rs)}
        vals(cat) == Filter(Indices(rs), [i \in 1..Len(rs) |-> CategoryOf(rs[i]) = cat])
        total(cat) == SumTo([j \in 1..Len(vals(cat)) |->
                                 parse_swedish_float(rs[vals(cat)[j]].impact_score)],
                            Len(vals(cat)))
    IN  [cat \in cats |-> RoundDiv(total(cat), 10 * Len(vals(cat)))]

cat_counts(rs) == Counter([i \in 1..Len(rs) |-> CategoryOf(rs[i])])

Summarise ==
    /\ pc = "read"
    /\ rows # <<>>
    /\ summary' = [total_incidents   |-> Len(rows),
                   total_cost        |-> total_cost(rows),
                   sites             |-> sites(rows),
                   period            |-> period(rows),
                   sev_counts        |-> sev_counts(rows),
                   per_severity      |-> per_severity(rows),
                   big_incidents     |-> big_incidents(rows),
                   top5              |-> top5(rows),
                   device_counts     |-> device_counts(rows),
                   recurring_devices |-> recurring(rows),
                   avg_cat_scores    |-> avg_cat_scores(rows),
                   cat_counts        |-> cat_counts(rows)]
    /\ pc' = "summarised"
    /\ UNCHANGED <<lines, rows, site_summary, device_summary, weekly_summary, files,
                   results>>

(***************************************************************************)
(* A dict whose order matters is the sequence of its entries in insertion  *)
(* order, each a record with its key in the field `key`.                   *)
(***************************************************************************)
HasKey(d, k) == \E i \in 1..Len(d) : d[i].key = k

IndexOf(d, k) == CHOOSE i \in 1..Len(d) : d[i].key = k

Get(d, k) == d[IndexOf(d, k)]

Keys(d) == {d[i].key : i \in 1..Len(d)}

(***************************************************************************)
(* Lines 159-202: site_summary and incidents_by_site.csv                   *)
(***************************************************************************)
\* SiteStep with the total counted only for a recognised severity
SiteStepRecognisedOnly(d, r) ==
    LET site == SiteOf(r)
        sev  == r.severity
        d1   == IF HasKey(d, site) THEN d
                ELSE Append(d, [key |-> site, count |-> 0, total_cost |-> 0,
                                total_res |-> 0, critical |-> 0, high |-> 0,
                                medium |-> 0, low |-> 0])
        i    == IndexOf(d1, site)
        e    == [d1[i] EXCEPT !.count = @ + 1,
                              !.total_res = @ + r.resolution_minutes,
                              !.total_cost = @ + r.cost_sek]
        e1   == IF sev = critical THEN [e EXCEPT !.critical = @ + 1]
                ELSE IF sev = high THEN [e EXCEPT !.high = @ + 1]
                ELSE IF sev = medium THEN [e EXCEPT !.medium = @ + 1]
                ELSE IF sev = low THEN [e EXCEPT !.low = @ + 1]
                ELSE d1[i]
    IN  [d1 EXCEPT ![i] = e1]

\* one pass of the loop of lines 160-173
SiteStep(d, r) ==
    LET site == SiteOf(r)
        sev  == r.severity
        d1   == IF HasKey(d, site) THEN d
                ELSE Append(d, [key |-> site, count |-> 0, total_cost |-> 0,
                                total_res |-> 0, critical |-> 0, high |-> 0,
                                medium |-> 0, low |-> 0])
        i    == IndexOf(d1, site)
        e    == [d1[i] EXCEPT !.count = @ + 1,
                              !.total_res = @ + r.resolution_minutes,
                              !.total_cost = @ + r.cost_sek]
        e1   == IF sev = critical THEN [e EXCEPT !.critical = @ + 1]
                ELSE IF sev = high THEN [e EXCEPT !.high = @ + 1]
                ELSE IF sev = medium THEN [e EXCEPT !.medium = @ + 1]
                ELSE IF sev = low THEN [e EXCEPT !.low = @ + 1]
                ELSE e
    IN  [d1 EXCEPT ![i] = e1]

RECURSIVE SiteLoop(_, _)
SiteLoop(d, rs) == IF rs = <<>> THEN d ELSE SiteLoop(SiteStep(d, Head(rs)), Tail(rs))

\* lines 175-176: avg_res to one decimal (in tenths)
WithAvgRes(e) ==
    [key |-> e.key, count |-> e.count, total_cost |-> e.total_cost,
     total_res |-> e.total_res, critical |-> e.critical, high |-> e.high,
     medium |-> e.medium, low |-> e.low,
     avg_res |-> IF e.count # 0 THEN RoundDiv(10 * e.total_res, e.count) ELSE 0]

SiteSummary(rs) ==
    LET d == SiteLoop(<<>>, rs)
    IN  [i \in 1..Len(d) |-> WithAvgRes(d[i])]

SiteCsvRow(e) ==
    [Site |-> e.key, Total |-> e.count, Critical |-> e.critical, High |-> e.high,
     Medium |-> e.medium, Low |-> e.low, AvgResolution |-> e.avg_res,
     TotalCost |-> format_sek(e.total_cost)]

WriteSitesCsv ==
    /\ pc = "summarised"
    /\ site_summary' = SiteSummary(rows)
    /\ files' = Written("incidents_by_site.csv",
                        [i \in 1..Len(site_summary') |-> SiteCsvRow(site_summary'[i])])
    /\ pc' = "sites_written"
    /\ UNCHANGED <<lines, rows, summary, device_summary, weekly_summary, results>>

(***************************************************************************)
(* Lines 205-265: device_summary and problem_devices.csv                   *)
(***************************************************************************)
severity_map(sev) ==
    IF sev = critical THEN 4
    ELSE IF sev = high THEN 3
    ELSE IF sev = medium THEN 2
    ELSE IF sev = low THEN 1
    ELSE 0

type_map(prefix) ==
    IF prefix = SW THEN switch
    ELSE IF prefix = AP THEN access_point
    ELSE IF prefix = RT THEN router
    ELSE IF prefix = FW THEN firewall
    ELSE IF prefix = LB THEN load_balancer
    ELSE other

\* max((r["week_number"] for r in rows if r["week_number"]), default=0)
max_week(rs) ==
    LET ws == {rs[i].week_number : i \in 1..Len(rs)} \ {0}
    IN  IF ws = {} THEN 0 ELSE CHOOSE w \in ws : \A v \in ws : v <= w

\* if week >= max_week - 1
IsRecent(week, maxw) == week >= maxw - 1

\* one pass of the loop of lines 213-235
DeviceStep(d, r, maxw) ==
    LET dev == DeviceOf(r)
        sev == Lower(Or(r.severity, unknown))
        d1  == IF HasKey(d, dev) THEN d
               ELSE Append(d, [key |-> dev, site |-> SiteOf(r),
                               device_type |-> type_map(Split(dev, "-")[1]),
                               count |-> 0, sev_scores |-> <<>>, total_cost |-> 0,
                               total_users |-> 0, recent |-> FALSE])
        i   == IndexOf(d1, dev)
    IN  [d1 EXCEPT ![i] =
            [@ EXCEPT !.count = @ + 1,
                      !.sev_scores = Append(@, severity_map(Lower(sev))),
                      !.total_cost = @ + r.cost_sek,
                      !.total_users = @ + r.affected_users,
                      !.recent = IF IsRecent(r.week_number, maxw) THEN TRUE ELSE @]]

RECURSIVE DeviceLoop(_, _, _)
DeviceLoop(d, rs, maxw) ==
    IF rs = <<>> THEN d ELSE DeviceLoop(DeviceStep(d, Head(rs), maxw), Tail(rs), maxw)

DeviceSummary(rs) == DeviceLoop(<<>>, rs, max_week(rs))

\* the averages are written with two decimals (here in hundredths)
DeviceCsvRow(e) ==
    LET n == Len(e.sev_scores)
    IN  [device_hostname |-> e.key, site |-> e.site, device_type |-> e.device_type,
         incident_count |-> e.count,
         avg_severity_score |->
             IF n # 0 THEN RoundDiv(100 * SumTo(e.sev_scores, n), n) ELSE 0,
         total_cost_sek |-> format_sek(e.total_cost),
         avg_affected_users |->
             IF e.count # 0 THEN RoundDiv(100 * e.total_users, e.count) ELSE 0,
         in_last_weeks_warnings |-> IF e.recent THEN yes ELSE no]

\* lines 250-265: the entries by (count, total_cost), largest first
DeviceCsv(d) ==
    LET order == SortedDesc([i \in 1..Len(d) |-> i],
                            [i \in 1..Len(d) |-> <<d[i].count, d[i].total_cost>>])
    IN  [j \in 1..Len(d) |-> DeviceCsvRow(d[order[j]])]

WriteDevicesCsv ==
    /\ pc = "sites_written"
    /\ device_summary' = DeviceSummary(rows)
    /\ files' = Written("problem_devices.csv", DeviceCsv(device_summary'))
    /\ pc' = "devices_written"
    /\ UNCHANGED <<lines, rows, summary, site_summary, weekly_summary, results>>

(***************************************************************************)
(* Lines 269-303: weekly_summary and cost_analysis.csv                     *)
(***************************************************************************)
MinWeek == 1

MaxWeek == 52

\* the upper edge off by one: week 52 skipped
WeekSkippedAt52(week) == week = 0 \/ week < MinWeek \/ week >= MaxWeek

\* if not week or week < 1 or week > 52: continue
WeekSkipped(week) == week = 0 \/ week < MinWeek \/ week > MaxWeek

\* one pass of the loop of lines 271-284
WeeklyStep(d, r) ==
    LET week == r.week_number
        d1   == IF HasKey(d, week) THEN d
                ELSE Append(d, [key |-> week, impact_scores |-> <<>>, total_cost |-> 0])
        i    == IndexOf(d1, week)
    IN  IF WeekSkipped(week) THEN d
        ELSE [d1 EXCEPT ![i] =
                 [@ EXCEPT !.total_cost = @ + r.cost_sek,
                           !.impact_scores =
                               Append(@, parse_swedish_float(r.impact_score))]]

RECURSIVE WeeklyLoop(_, _)
WeeklyLoop(d, rs) ==
    IF rs = <<>> THEN d ELSE WeeklyLoop(WeeklyStep(d, Head(rs)), Tail(rs))

WeeklySummary(rs) == WeeklyLoop(<<>>, rs)

\* the average impact score is written with two decimals (here in hundredths)
WeeklyCsvRow(e) ==
    LET n == Len(e.impact_scores)
    IN  [week_number |-> e.key,
         avg_impact_score |-> IF n # 0 THEN RoundDiv(SumTo(e.impact_scores, n), n) ELSE 0,
         total_cost_sek |-> format_sek(e.total_cost)]

\* for week in sorted(weekly_summary.keys())
WeeklyCsv(d) ==
    LET order == SortInts(Keys(d))
    IN  [j \in 1..Len(order) |-> WeeklyCsvRow(Get(d, order[j]))]

\* lines 269-320: the last file, and the dict returned to main
WriteCostCsv ==
    /\ pc = "devices_written"
    /\ weekly_summary' = WeeklySummary(rows)
    /\ files' = Written("cost_analysis.csv", WeeklyCsv(weekly_summary'))
    /\ results' = [rows              |-> rows,
                   total_incidents   |-> summary.total_incidents,
                   total_cost        |-> summary.total_cost,
                   sites             |-> summary.sites,
                   period            |-> summary.period,
                   sev_counts        |-> summary.sev_counts,
                   per_severity      |-> summary.per_severity,
                   big_incidents     |-> summary.big_incidents,
                   top5              |-> summary.top5,
                   recurring_devices |-> summary.recurring_devices,
                   device_counts     |-> summary.device_counts,
                   site_summary      |-> site_summary,
                   avg_cat_scores    |-> summary.avg_cat_scores,
                   cat_counts        |-> summary.cat_counts]
    /\ pc' = "returned"
    /\ UNCHANGED <<lines, rows, summary, site_summary, device_summary>>

(***************************************************************************)
(* Lines 324-490: incident_analysis.  The file is the record of what the   *)
(* report prints; the column layout and the fixed text are left out.       *)
(***************************************************************************)
UpperChar(c) ==
    IF \E i \in 1..26 : LowerCase[i] = c
    THEN UpperCase[CHOOSE i \in 1..26 : LowerCase[i] = c]
    ELSE c

\* str.capitalize()
Capitalize(s) ==
    [i \in 1..Len(s) |-> IF i = 1 THEN UpperChar(s[i]) ELSE LowerChar(s[i])]

\* lines 344-350: the block on SW-DC-TOR-02, <<>> when it is not printed
MostFrequentBlock(res) ==
    LET rs    == res.rows
        tor02 == Filter(Indices(rs), [i \in 1..Len(rs) |-> rs[i].device_hostname = TOR02])
        weeks == {rs[tor02[j]].week_number : j \in 1..Len(tor02)} \ {0}
    IN  IF tor02 # <<>>
        THEN <<[device |-> TOR02, incidents |-> Len(tor02), weeks |-> Cardinality(weeks)]>>
        ELSE <<>>

\* max(results["rows"], key=lambda r: r.get("cost_sek", 0) or 0)
most_expensive(rs) == MaxBy(Indices(rs), CostKey(rs))

\* lines 352-358, <<>> when it is not printed
MostExpensiveBlock(res) ==
    LET rs == res.rows
        m  == most_expensive(rs)
    IN  IF rs # <<>>
        THEN <<[row |-> m, cost |-> format_sek(rs[m].cost_sek),
                ticket |-> rs[m].ticket_id, device |-> rs[m].device_hostname,
                site |-> rs[m].site]>>
        ELSE <<>>

\* severity_order.get(sev.lower(), 99)
severity_order(sev) ==
    IF Lower(sev) = critical THEN 1
    ELSE IF Lower(sev) = high THEN 2
    ELSE IF Lower(sev) = medium THEN 3
    ELSE IF Lower(sev) = low THEN 4
    ELSE 99

\* lines 376-387: per_severity's items (built in the order of its sorted keys)
\* by severity_order, smallest first
SeverityTable(res) ==
    LET ks    == SortTexts(DOMAIN res.per_severity)
        order == SortedDesc([i \in 1..Len(ks) |-> i],
                            [i \in 1..Len(ks) |-> <<-severity_order(ks[i])>>])
    IN  [j \in 1..Len(ks) |->
            LET sev == ks[order[j]]
            IN  [severity |-> Capitalize(sev),
                 count    |-> res.per_severity[sev].count,
                 avg_res  |-> res.per_severity[sev].avg_res,
                 avg_cost |-> format_sek(res.per_severity[sev].avg_cost)]]

RowLine(r) ==
    [ticket |-> r.ticket_id, device |-> r.device_hostname, site |-> r.site,
     category |-> r.category, users |-> r.affected_users,
     cost |-> format_sek(r.cost_sek)]

CategoryTable(res) ==
    LET cs == SortTexts(DOMAIN res.avg_cat_scores)
    IN  [j \in 1..Len(cs) |->
            [category |-> cs[j], count |-> res.cat_counts[cs[j]],
             score |-> res.avg_cat_scores[cs[j]]]]

Report(res) ==
    LET crit == IF critical \in DOMAIN res.per_severity
                THEN res.per_severity[critical].count ELSE 0
    IN  [period          |-> res.period,
         sites           |-> res.sites,
         total_incidents |-> res.total_incidents,
         total_cost      |-> format_sek(res.total_cost),
         most_frequent   |-> MostFrequentBlock(res),
         most_expensive  |-> MostExpensiveBlock(res),
         non_critical    |-> res.total_incidents - crit,
         severities      |-> SeverityTable(res),
         big_incidents   |-> [j \in 1..Len(res.big_incidents) |->
                                  RowLine(res.rows[res.big_incidents[j]])],
         top5            |-> [j \in 1..Len(res.top5) |->
                                  RowLine(res.rows[res.top5[j]])],
         categories      |-> CategoryTable(res)]

\* main's second call and its print
IncidentAnalysis ==
    /\ pc = "returned"
    /\ files' = Written("incident_analysis.txt", Report(results))
    /\ pc' = "done"
    /\ UNCHANGED <<lines, rows, summary, site_summary, device_summary, weekly_summary,
                   results>>

\* what follows the reading loop
Pipeline ==
    \/ EndOfFile
    \/ NoRows
    \/ Summarise
    \/ WriteSitesCsv
    \/ WriteDevicesCsv
    \/ WriteCostCsv
    \/ IncidentAnalysis

(***************************************************************************)
(* The CSV files read.  A raw row gives each column a text, or None where  *)
(* the line has no such field.  Each family of files varies the columns    *)
(* one group of aggregates reads and keeps the others as in BaseRow.       *)
(***************************************************************************)
MaxRows == 3

MaxCostRows == 6

BaseRow ==
    [ticket_id          |-> <<"I", "N", "C", "-", "0", "0", "1">>,
     device_hostname    |-> <<"R", "T", "-", "L", "A", "G", "E", "R", "-", "0", "1">>,
     site               |-> <<"L", "a", "g", "e", "r">>,
     category           |-> <<"h", "a", "r", "d", "w", "a", "r", "e">>,
     severity           |-> <<"l", "o", "w">>,
     week_number        |-> <<"5">>,
     resolution_minutes |-> <<"6", "0">>,
     affected_users     |-> <<"1", "0">>,
     cost_sek           |-> <<"1", " ", "0", "0", "0", ",", "0", "0">>,
     impact_score       |-> <<"5", ",", "5">>,
     date               |-> <<"2", "0", "2", "4", "-", "0", "3", "-", "0", "5">>,
     incident_date      |-> None]

\* severities in every spelling, sites present and absent
SeverityRows ==
    {[BaseRow EXCEPT !.severity = v, !.site = s] :
        v \in {None,
              <<" ", "C", "r", "i", "t", "i", "c", "a", "l", " ">>,
              <<"H", "I", "G", "H">>,
              <<"m", "e", "d", "i", "u", "m">>,
              <<"l", "o", "w">>,
              <<"i", "n", "f", "o">>},
        s \in {<<>>,
              <<"H", "Q", " ">>}}

\* costs that tie, costs that differ, one that does not parse
CostRows ==
    {[BaseRow EXCEPT !.cost_sek = c] :
        c \in {<<"5", "0", ",", "0", "0">>,
              <<"1", " ", "0", "0", "0", ",", "0", "0">>,
              <<" ", "2", " ", "5", "0", "0", ",", "0", "0">>,
              <<"a", "b", "c">>}}

\* dates in several formats or none, week numbers or none
PeriodRows ==
    {[BaseRow EXCEPT !.date = d, !.week_number = w] :
        d \in {None,
              <<"2", "0", "2", "4", "-", "0", "3", "-", "0", "5">>,
              <<"1", "5", "/", "0", "1", "/", "2", "4">>,
              <<"a", "b", "c">>},
        w \in {None,
              <<"5">>,
              <<"7">>}}

\* three devices (one without a name) over weeks 1, 6, 8 or no week; no dates
DeviceRows ==
    {[BaseRow EXCEPT !.device_hostname = h, !.week_number = w, !.date = None] :
        h \in {None,
              <<"S", "W", "-", "D", "C", "-", "T", "O", "R", "-", "0", "2">>,
              <<"R", "T", "-", "L", "A", "G", "E", "R", "-", "0", "1">>},
        w \in {None,
              <<"1">>,
              <<"6">>,
              <<"8">>}}

\* week numbers inside, on the edges of and outside 1..52
WeeklyRows ==
    {[BaseRow EXCEPT !.week_number = w, !.cost_sek = c] :
        w \in {None,
              <<"0">>,
              <<"-", "1">>,
              <<"1">>,
              <<"5", "2">>,
              <<"5", "3">>},
        c \in {<<"5", "0", ",", "0", "0">>,
              <<"1", " ", "0", "0", "0", ",", "0", "0">>}}

\* a line with no field at all, a line of garbage, and lines with one bad field
MissingRow == [k \in DOMAIN BaseRow |-> None]

GarbageRow ==
    [k \in DOMAIN BaseRow |->
        IF k \in {"week_number", "resolution_minutes", "affected_users",
                  "cost_sek", "impact_score", "date", "incident_date"}
        THEN <<"n", "/", "a">> ELSE <<>>]

MalformedRows ==
    {BaseRow, MissingRow, GarbageRow,
     [BaseRow EXCEPT !.week_number = <<"1", "2", ".", "5">>],
     [BaseRow EXCEPT !.week_number = <<" ", "7", " ">>, !.date = None,
                     !.incident_date = <<"2", "0", "2", "3", "-", "1", "1", "-", "3", "0", " ", "0", "8", ":", "1", "5">>],
     [BaseRow EXCEPT !.resolution_minutes = <<"1", "h">>, !.affected_users = <<>>],
     [BaseRow EXCEPT !.affected_users = <<"1", "5", "0", " ", "s", "t">>, !.cost_sek = <<"1", " ", "2", "3", "4", ",", "5", "0">>],
     [BaseRow EXCEPT !.cost_sek = <<"1", ",", "2", "3", "4", ".", "5", "0">>],
     [BaseRow EXCEPT !.cost_sek = <<"S", "E", "K", " ", "1", "2">>, !.date = <<"2", "0", "2", "4", "-", "0", "2", "-", "3", "0">>],
     [BaseRow EXCEPT !.date = <<"t", "o", "m", "o", "r", "r", "o", "w">>, !.week_number = <<>>]}

Next == ReadRow(MalformedRows, MaxRows) \/ Pipeline

Spec == Init /\ [][Next]_vars

SpecSeverity == Init /\ [][ReadRow(SeverityRows, MaxRows) \/ Pipeline]_vars

SpecCost == Init /\ [][ReadRow(CostRows, MaxCostRows) \/ Pipeline]_vars

SpecPeriod == Init /\ [][ReadRow(PeriodRows, MaxRows) \/ Pipeline]_vars

SpecDevices == Init /\ [][ReadRow(DeviceRows, MaxRows) \/ Pipeline]_vars

SpecWeekly == Init /\ [][ReadRow(WeeklyRows, MaxRows) \/ Pipeline]_vars

(***************************************************************************)
(* Helpers of the properties                                               *)
(***************************************************************************)
Summarised == pc \in {"summarised", "sites_written", "devices_written", "returned", "done"}

SitesDone == pc \in {"sites_written", "devices_written", "returned", "done"}

DevicesDone == pc \in {"devices_written", "returned", "done"}

CostsDone == pc \in {"returned", "done"}

\* the sum of f over the finite set S
RECURSIVE SumOver(_, _)
SumOver(f, S) ==
    IF S = {} THEN 0
    ELSE LET x == CHOOSE y \in S : TRUE IN f[x] + SumOver(f, S \ {x})

RowIds == 1..Len(rows)

\* the site a record counts under: a missing or empty site is "UNKNOWN"
CountedSite(i) == IF rows[i].site \in {None, <<>>} THEN UNKNOWN ELSE rows[i].site

CountedDevice(i) ==
    IF rows[i].device_hostname \in {None, <<>>} THEN UNKNOWN ELSE rows[i].device_hostname

\* the records of a site that have exactly the severity sev
Of(site, sev) == {i \in RowIds : CountedSite(i) = site /\ rows[i].severity = sev}

\* what counts as a missing or malformed field of a raw record
DigitChars == {"0", "1", "2", "3", "4", "5", "6", "7", "8", "9"}

Missing(t) == t = None \/ \A i \in 1..Len(t) : t[i] \in {" ", "\t"}

\* a whole number in text: digits, after at most one sign
WholeNumber(t) ==
    LET u == Strip(t)
        b == IF u # <<>> /\ u[1] \in {"+", "-"} THEN Tail(u) ELSE u
    IN  b # <<>> /\ \A i \in 1..Len(b) : b[i] \in DigitChars

\* a Swedish decimal number in text: digits and spaces, at most one decimal
\* comma or point, after at most one sign
DecimalNumber(t) ==
    LET u == Strip(t)
        b == IF u # <<>> /\ u[1] \in {"+", "-"} THEN Tail(u) ELSE u
    IN  /\ \A i \in 1..Len(b) : b[i] \in DigitChars \cup {" ", ",", "."}
        /\ \E i \in 1..Len(b) : b[i] \in DigitChars
        /\ Cardinality({i \in 1..Len(b) : b[i] \in {",", "."}}) <= 1

BadInt(t) == Missing(t) \/ ~WholeNumber(t)

BadDecimal(t) == Missing(t) \/ ~DecimalNumber(t)

\* a text that holds no digit is no date
BadDate(t) == Missing(t) \/ \A i \in 1..Len(t) : t[i] \notin DigitChars

\* the dates and weeks the period is taken from
ParsedDates == {rows[i].date_parsed : i \in RowIds} \ {NoDate}

NonzeroWeeks == {rows[i].week_number : i \in RowIds} \ {0}

Least(S) == CHOOSE x \in S : \A y \in S : x <= y

Greatest(S) == CHOOSE x \in S : \A y \in S : y <= x

\* the period of the three tiers, the two weeks joined by `between`
ThreeTierPeriod(between) ==
    IF ParsedDates # {}
    THEN IsoFormat(Least(ParsedDates)) \o <<" ", "t", "o", " ">> \o IsoFormat(Greatest(ParsedDates))
    ELSE IF NonzeroWeeks = {} THEN <<"U", "n", "k", "n", "o", "w", "n", " ", "p", "e", "r", "i", "o", "d">>
    ELSE IF Cardinality(NonzeroWeeks) = 1
    THEN <<"W", "e", "e", "k", " ">> \o IntStr(Least(NonzeroWeeks))
    ELSE <<"W", "e", "e", "k", "s", " ">> \o IntStr(Least(NonzeroWeeks)) \o between
             \o IntStr(Greatest(NonzeroWeeks))

\* the device has an incident in the largest week observed or the one before
HasRecentIncident(dev) ==
    /\ NonzeroWeeks # {}
    /\ \E i \in RowIds :
           /\ CountedDevice(i) = dev
           /\ rows[i].week_number # 0
           /\ rows[i].week_number \in {Greatest(NonzeroWeeks), Greatest(NonzeroWeeks) - 1}

\* the cost of each record, and the records outside the weekly view
CostOf == [i \in RowIds |-> rows[i].cost_sek]

OutOfRange(i) == rows[i].week_number < 1 \/ rows[i].week_number > 52

(***************************************************************************)
(* C1: for every non-empty record set the counts of per_severity add up    *)
(* to total_incidents, also when some records have an empty severity       *)
(* (grouped under "unknown").                                              *)
(***************************************************************************)
C1_SeverityCountsSumToTotal ==
    Summarised =>
        SumOver([sev \in DOMAIN summary.per_severity |->
                     summary.per_severity[sev].count],
                DOMAIN summary.per_severity) = summary.total_incidents

(***************************************************************************)
(* C2: site_summary has one entry per site; its count is the number of     *)
(* records of the site (a missing or empty site is "UNKNOWN"); each of     *)
(* critical, high, medium, low is the number of the site's records of      *)
(* exactly that severity; so the four add up to at most count.             *)
(***************************************************************************)
C2_SiteCounts ==
    SitesDone =>
        /\ Keys(site_summary) = {CountedSite(i) : i \in RowIds}
        /\ \A j, k \in 1..Len(site_summary) :
               site_summary[j].key = site_summary[k].key => j = k
        /\ \A j \in 1..Len(site_summary) :
               LET e == site_summary[j]
               IN  /\ e.count = Cardinality({i \in RowIds : CountedSite(i) = e.key})
                   /\ e.critical = Cardinality(Of(e.key, critical))
                   /\ e.high = Cardinality(Of(e.key, high))
                   /\ e.medium = Cardinality(Of(e.key, medium))
                   /\ e.low = Cardinality(Of(e.key, low))
                   /\ e.critical + e.high + e.medium + e.low <= e.count

\* the UNKNOWN site holds two records, one critical and one of no
\* recognised severity, beside a named site
C2_Witness ==
    /\ SitesDone
    /\ Len(site_summary) = 2
    /\ \E j \in 1..Len(site_summary) :
           /\ site_summary[j].key = UNKNOWN
           /\ site_summary[j].count = 2
           /\ site_summary[j].critical = 1
           /\ site_summary[j].high + site_summary[j].medium + site_summary[j].low = 0

C4_NoOutputBeforeCheck ==
    /\ rows = <<>> => pc \in {"reading", "read", "fatal"}
    /\ pc \in {"reading", "read", "fatal"} => DOMAIN files = {}
    /\ pc = "fatal" => rows = <<>>

C4_Witness == pc = "fatal" /\ lines = <<>> /\ DOMAIN files = {}

C6_PeriodAsStated == Summarised => summary.period = ThreeTierPeriod(<<" ", "t", "o", " ">>)

(***************************************************************************)
(* C6, as amended: the same three tiers, but two different nonzero weeks   *)
(* give "Weeks A-B", the two numbers joined by a hyphen.                   *)
(***************************************************************************)
C6_PeriodAmended == Summarised => summary.period = ThreeTierPeriod(<<"-">>)

\* no record has a date, and the weeks are 5 and 7
C6_Witness ==
    /\ Summarised
    /\ ParsedDates = {}
    /\ NonzeroWeeks = {5, 7}
    /\ summary.period = <<"W", "e", "e", "k", "s", " ", "5", "-", "7">>

(***************************************************************************)
(* C7: a device's row of problem_devices.csv has in_last_weeks_warnings =  *)
(* yes exactly when the device has an incident whose week number is the    *)
(* largest week number observed or that number less one; a device whose    *)
(* incidents all have no week number, or are all two or more weeks old,    *)
(* has no; with no week number in any record no device has yes.            *)
(***************************************************************************)
C7_RecentFlag ==
    DevicesDone =>
        \A j \in 1..Len(files["problem_devices.csv"]) :
            LET x == files["problem_devices.csv"][j]
            IN  x.in_last_weeks_warnings = yes <=> HasRecentIncident(x.device_hostname)

(***************************************************************************)
(* C8: the weekly view has an entry for exactly the week numbers 1..52     *)
(* that occur, with the sum of cost_sek of the week's records; a record of *)
(* week 0, a negative week or a week above 52 is in no weekly entry but    *)
(* still in total_incidents, total_cost, its site's and its device's       *)
(* summary.                                                                *)
(***************************************************************************)
C8_WeeklyView ==
    CostsDone =>
        /\ Keys(weekly_summary) = {rows[i].week_number : i \in RowIds} \cap (1..52)
        /\ \A j, k \in 1..Len(weekly_summary) :
               weekly_summary[j].key = weekly_summary[k].key => j = k
        /\ \A j \in 1..Len(weekly_summary) :
               weekly_summary[j].total_cost =
                   SumOver(CostOf, {i \in RowIds : rows[i].week_number = weekly_summary[j].key})
        /\ SumOver([j \in 1..Len(weekly_summary) |-> Len(weekly_summary[j].impact_scores)],
                   1..Len(weekly_summary))
               = Cardinality({i \in RowIds : ~OutOfRange(i)})
        /\ results.total_incidents = Len(rows)
        /\ results.total_cost = SumOver(CostOf, RowIds)
        /\ \A i \in RowIds :
               /\ Get(site_summary, CountedSite(i)).count
                      = Cardinality({k \in RowIds : CountedSite(k) = CountedSite(i)})
               /\ Get(site_summary, CountedSite(i)).total_cost
                      = SumOver(CostOf, {k \in RowIds : CountedSite(k) = CountedSite(i)})
               /\ Get(device_summary, CountedDevice(i)).count
                      = Cardinality({k \in RowIds : CountedDevice(k) = CountedDevice(i)})
               /\ Get(device_summary, CountedDevice(i)).total_cost
                      = SumOver(CostOf, {k \in RowIds : CountedDevice(k) = CountedDevice(i)})

\* weeks 52, 53 and 0 were read: only week 52 has an entry, all three count
C8_Witness ==
    /\ CostsDone
    /\ {rows[i].week_number : i \in RowIds} = {0, 52, 53}
    /\ Keys(weekly_summary) = {52}
    /\ results.total_incidents = 3
    /\ results.total_cost > Get(weekly_summary, 52).total_cost

(***************************************************************************)
(* C9: the device the highlights give as the most frequent device has the  *)
(* largest incident count of all devices, and the count printed for it is  *)
(* its entry in device_counts.                                             *)
(***************************************************************************)
C9_MostFrequentDevice ==
    pc = "done" =>
        LET b == files["incident_analysis.txt"].most_frequent
        IN  b # <<>> =>
                /\ \A d \in DOMAIN results.device_counts :
                       results.device_counts[d] <= results.device_counts[b[1].device]
                /\ b[1].incidents = results.device_counts[b[1].device]

=============================================================================
